---- MODULE Spec2Model ----
(***************************************************************************)
(* Lifecycle orchestrator of src/app/app.js: the readiness state, the      *)
(* startup check batch, the periodic probe, the request gate, the error    *)
(* handler and the two-phase shutdown (shutdown -> cleanup -> exit).       *)
(*                                                                         *)
(* Time is counted in seconds: the code's 5000 ms and 10000 ms delays are  *)
(* 5 and 10 units.  A timer fires when its remaining time is 0, and time   *)
(* does not advance past a due timer; between timers time passes in one    *)
(* step, so every other event happens at the instant of some timer, in any *)
(* order with it.  The handlers of one promise chain (then / catch /       *)
(* finally) are microtasks: no timer, signal or request runs between them. *)
(***************************************************************************)
EXTENDS Integers, Sequences, FiniteSets, TLC

\* ---- program constants (seconds) ----
QuiescenceDelay == 5
HardCeiling == 10
ProbeInterval == 10

\* ---- bounds of the model ----
MaxShutdowns == 2
MaxInFlight == 2

Envs == {"test", "development", "production"}

VARIABLES
  env,            \* process.env.NODE_ENV
  connections,    \* state.connections
  mounted,        \* state.mounted
  ready,          \* state.ready
  shutdownFlag,   \* state.shutdown
  exitCode,       \* process.exitCode (0 when unset)
  exited,         \* process.exit() has been called
  exitStatus,     \* the status the process ended with (-1 while it runs)
  startPc,        \* position of initializeConnections and its promise chain
  tasks,          \* the startup batch's promises: how many are still pending,
                  \* and whether one has rejected (the checks are symmetric)
  registered,     \* number of times mountServices has registered the listeners
  probeId,        \* TRUE while the probe interval is scheduled
  probeTimer,     \* time left to the next checkConnections tick
  inflight,       \* periodic probe batches started and not settled
  cleanupTimers,  \* time left of every pending setTimeout(cleanup, 5000)
  chains,         \* one record per cleanup() run: its close chain and hard timer
  paused,         \* queueConnection.pause() has been called
  unmounted,      \* history: mounted has gone from true back to false
  lastOut         \* what the handler that ran last answered or asked for:
                  \* the gate's answer, whether the error handler reset the
                  \* data connection, "lateProbe" for a probe handler that ran
                  \* after cleanup() ("-" for the other handlers)

flags == <<connections, mounted, ready, shutdownFlag>>
proc == <<exitCode, exited, exitStatus>>
start == <<env, startPc, tasks, registered>>
probe == <<probeId, probeTimer, inflight>>
down == <<cleanupTimers, chains, paused>>
vars == <<flags, proc, start, probe, down, unmounted, lastOut>>

\* Object.values(state.connections).every(x => x)
Every(c) == \A d \in DOMAIN c : c[d]

\* a gate that tests readiness before it tests state.shutdown
evaluateGate_readyFirst(s, r, m) ==
  IF ~r \/ ~m THEN "NotReady"
  ELSE IF s THEN "Shutdown"
  ELSE "Admit"

\* ---- the gate middleware ----
evaluateGate(s, r, m) ==
  IF s THEN "Shutdown"
  ELSE IF ~r \/ ~m THEN "NotReady"
  ELSE "Admit"

NoTasks == [pending |-> 0, rejected |-> FALSE]

\* ---- initial state: the module-level declarations, lines 20-30 ----
Init ==
  /\ env \in Envs
  /\ connections = [data |-> FALSE, email |-> TRUE, queue |-> FALSE]
  /\ mounted = FALSE
  /\ ready = FALSE
  /\ shutdownFlag = FALSE
  /\ exitCode = 0
  /\ exited = FALSE
  /\ exitStatus = -1
  /\ startPc = "boot"
  /\ tasks = NoTasks
  /\ registered = 0
  /\ probeId = FALSE
  /\ probeTimer = 0
  /\ inflight = 0
  /\ cleanupTimers = <<>>
  /\ chains = <<>>
  /\ paused = FALSE
  /\ unmounted = FALSE
  /\ lastOut = "-"

\* ---- the startup batch ----
\* the checks of the batch, in the order the tasks array is built
Started == IF env = "production" THEN {"data", "queue", "email"} ELSE {"data", "queue"}

AllFulfilled == tasks.pending = 0 /\ ~tasks.rejected
SomeRejected == tasks.rejected

\* a promise handler of the startup chain is queued: it runs before any
\* timer, signal, request or I/O callback
MicrotaskPending ==
  \/ startPc = "pending" /\ (AllFulfilled \/ SomeRejected)
  \/ startPc \in {"thenDone", "catchDone"}

Running == ~exited /\ startPc # "boot"

\* shutdown() that schedules cleanup() with no quiescence delay
shutdown_noDelay ==
  /\ paused' = TRUE
  /\ cleanupTimers' = IF ~shutdownFlag
                        THEN Append(cleanupTimers, 0)
                        ELSE cleanupTimers

\* ---- shutdown(), lines 141-147 ----
shutdown ==
  /\ paused' = TRUE
  /\ cleanupTimers' = IF ~shutdownFlag
                        THEN Append(cleanupTimers, QuiescenceDelay)
                        ELSE cleanupTimers

\* bound of the model: the calls of shutdown() that schedule a cleanup
CanSchedule == shutdownFlag \/ Len(cleanupTimers) + Len(chains) < MaxShutdowns

\* process.exit(): the process ends with the recorded exit code; the timers
\* and the probe batches that were pending end with it
processExit ==
  /\ exited' = TRUE
  /\ exitStatus' = exitCode
  /\ UNCHANGED exitCode
  /\ cleanupTimers' = <<>>
  /\ inflight' = 0

\* an exception that no handler catches ends the process with status 1: the
\* only handler app.js registers is the one for unhandled rejections, lines
\* 122-126
uncaughtException ==
  /\ exited' = TRUE
  /\ exitStatus' = 1
  /\ UNCHANGED exitCode
  /\ cleanupTimers' = <<>>
  /\ inflight' = 0

\* cleanup() that closes the handles without setting state.shutdown
cleanup_noFlag ==
  /\ UNCHANGED shutdownFlag
  /\ probeId' = FALSE
  /\ probeTimer' = 0
  /\ chains' = Append(chains, [queue |-> "closing", email |-> "idle",
                               data |-> "idle", age |-> 0, hard |-> TRUE])

\* cleanup() that starts the three closes at once instead of nesting them
cleanup_parallel ==
  /\ shutdownFlag' = TRUE
  /\ probeId' = FALSE
  /\ probeTimer' = 0
  /\ chains' = Append(chains, [queue |-> "closing", email |-> "closing",
                               data |-> "closing", age |-> 0, hard |-> TRUE])

\* cleanup() that leaves the exit to the end of the close chain alone
cleanup_noHardTimer ==
  /\ shutdownFlag' = TRUE
  /\ probeId' = FALSE
  /\ probeTimer' = 0
  /\ chains' = Append(chains, [queue |-> "closing", email |-> "idle",
                               data |-> "idle", age |-> 0, hard |-> FALSE])

\* ---- cleanup(), lines 153-170 ----
cleanup ==
  /\ shutdownFlag' = TRUE
  /\ probeId' = FALSE
  /\ probeTimer' = 0
  /\ chains' = Append(chains, [queue |-> "closing", email |-> "idle",
                               data |-> "idle", age |-> 0, hard |-> TRUE])

\* the timer set by shutdown() fires
CleanupTimer ==
  /\ Running /\ ~MicrotaskPending
  /\ cleanupTimers # <<>> /\ Head(cleanupTimers) = 0
  /\ cleanupTimers' = Tail(cleanupTimers)
  /\ cleanup
  /\ UNCHANGED unmounted
  /\ lastOut' = "-"
  /\ UNCHANGED <<connections, mounted, ready, proc, start, inflight, paused>>

\* cleanup() when queueConnection.close() itself throws, lines 154-160: the
\* exception leaves cleanup() before the nested closes and before line 169,
\* and nothing catches it in the timer callback
cleanupThrows ==
  /\ shutdownFlag' = TRUE
  /\ probeId' = FALSE
  /\ probeTimer' = 0
  /\ chains' = Append(chains, [queue |-> "crashed", email |-> "idle",
                               data |-> "idle", age |-> 0, hard |-> FALSE])
  /\ uncaughtException

CleanupTimerThrows ==
  /\ Running /\ ~MicrotaskPending
  /\ cleanupTimers # <<>> /\ Head(cleanupTimers) = 0
  /\ cleanupThrows
  /\ UNCHANGED unmounted
  /\ lastOut' = "-"
  /\ UNCHANGED <<connections, mounted, ready, start, paused>>

\* queueConnection.close signals completion, with or without an error (the
\* callback of line 160 takes no argument): emailConnection.close starts
QueueClosed(i) ==
  /\ Running /\ ~MicrotaskPending
  /\ chains[i].queue = "closing"
  /\ chains' = [chains EXCEPT ![i].queue = "closed", ![i].email = "closing"]
  /\ UNCHANGED unmounted
  /\ lastOut' = "-"
  /\ UNCHANGED <<flags, proc, start, probe, cleanupTimers, paused>>

\* the queue close completes and emailConnection.close() itself throws
\* inside the callback, line 161: dataConnection.close is never called and
\* the exception is uncaught. (A close implementation that calls the callback
\* from a promise turns the exception into an unhandled rejection, logged at
\* lines 122-126: the chain then stays where a mail close that never
\* completes leaves it, which EmailClosed not being taken already covers.)
EmailCloseThrows(i) ==
  /\ Running /\ ~MicrotaskPending
  /\ chains[i].queue = "closing"
  /\ chains' = [chains EXCEPT ![i].queue = "closed", ![i].email = "crashed"]
  /\ uncaughtException
  /\ UNCHANGED unmounted
  /\ lastOut' = "-"
  /\ UNCHANGED <<flags, start, probeId, probeTimer, paused>>

\* emailConnection.close signals completion: dataConnection.close starts
EmailClosed(i) ==
  /\ Running /\ ~MicrotaskPending
  /\ chains[i].email = "closing"
  /\ chains' = [chains EXCEPT ![i].email = "closed", ![i].data = "closing"]
  /\ UNCHANGED unmounted
  /\ lastOut' = "-"
  /\ UNCHANGED <<flags, proc, start, probe, cleanupTimers, paused>>

\* the mail close completes and dataConnection.close() itself throws inside
\* the callback, line 162: process.exit() of line 163 is never reached
DataCloseThrows(i) ==
  /\ Running /\ ~MicrotaskPending
  /\ chains[i].email = "closing"
  /\ chains' = [chains EXCEPT ![i].email = "closed", ![i].data = "crashed"]
  /\ uncaughtException
  /\ UNCHANGED unmounted
  /\ lastOut' = "-"
  /\ UNCHANGED <<flags, start, probeId, probeTimer, paused>>

\* dataConnection.close signals completion: process.exit()
DataClosed(i) ==
  /\ Running /\ ~MicrotaskPending
  /\ chains[i].data = "closing"
  /\ chains' = [chains EXCEPT ![i].data = "closed"]
  /\ processExit
  /\ UNCHANGED unmounted
  /\ lastOut' = "-"
  /\ UNCHANGED <<flags, start, probeId, probeTimer, paused>>

\* the timer of line 169 fires
HardTimeout(i) ==
  /\ Running /\ ~MicrotaskPending
  /\ chains[i].hard /\ chains[i].age = HardCeiling
  /\ processExit
  /\ UNCHANGED unmounted
  /\ lastOut' = "-"
  /\ UNCHANGED <<flags, start, probeId, probeTimer, chains, paused>>

\* a signal handler that also marks the exit code failure
Signal_marksFailure ==
  /\ Running /\ ~MicrotaskPending
  /\ CanSchedule
  /\ shutdown
  /\ exitCode' = 1
  /\ UNCHANGED unmounted
  /\ lastOut' = "-"
  /\ UNCHANGED <<flags, exited, exitStatus, start, probe, chains>>

\* a termination signal (SIGTERM, SIGINT, SIGUSR1, SIGUSR2), lines 129-132
Signal ==
  /\ Running /\ ~MicrotaskPending
  /\ CanSchedule
  /\ shutdown
  /\ UNCHANGED unmounted
  /\ lastOut' = "-"
  /\ UNCHANGED <<flags, proc, start, probe, chains>>

\* a catch block that marks the exit code but does not call shutdown()
initializeConnections_noShutdown(throws) ==
  IF ~throws
    THEN /\ tasks' = [pending |-> Cardinality(Started), rejected |-> FALSE]
         /\ startPc' = "pending"
         /\ UNCHANGED <<exitCode, paused, cleanupTimers>>
    ELSE /\ startPc' = "threw"
         /\ exitCode' = IF ~ready THEN 1 ELSE exitCode
         /\ UNCHANGED <<paused, cleanupTimers>>
         /\ UNCHANGED tasks

\* ---- initializeConnections(), lines 56-62 and 177-215 ----
\* throws: building the tasks array throws synchronously (the promises it
\* leaves behind have no handler and are not modelled)
initializeConnections(throws) ==
  IF ~throws
    THEN /\ tasks' = [pending |-> Cardinality(Started), rejected |-> FALSE]
         /\ startPc' = "pending"
         /\ UNCHANGED <<exitCode, paused, cleanupTimers>>
    ELSE /\ startPc' = "threw"
         /\ IF ~ready
              THEN exitCode' = 1 /\ shutdown
              ELSE UNCHANGED <<exitCode, paused, cleanupTimers>>
         /\ UNCHANGED tasks

Load ==
  /\ startPc = "boot"
  /\ IF env = "test"
       THEN /\ startPc' = "skipped"
            /\ UNCHANGED <<tasks, exitCode, paused, cleanupTimers, probe>>
       ELSE /\ \E throws \in BOOLEAN : initializeConnections(throws)
            /\ probeId' = TRUE
            /\ probeTimer' = ProbeInterval
            /\ UNCHANGED inflight
  /\ UNCHANGED unmounted
  /\ lastOut' = "-"
  /\ UNCHANGED <<flags, exited, exitStatus, env, registered, chains>>

\* one check of the startup batch settles (a promise that settles with no
\* handler attached to the batch any more changes nothing)
TaskSettle(outcome) ==
  /\ Running /\ ~MicrotaskPending
  /\ startPc = "pending"
  /\ tasks.pending > 0
  /\ tasks' = [pending |-> tasks.pending - 1, rejected |-> outcome = "rejected"]
  /\ UNCHANGED unmounted
  /\ lastOut' = "-"
  /\ UNCHANGED <<flags, proc, env, startPc, registered, probe, down>>

\* .then(results => ...), lines 190-196: results[d] is the value the check of
\* d was fulfilled with
StartupThen(results) ==
  /\ Running
  /\ startPc = "pending" /\ AllFulfilled
  /\ connections' = [data |-> results["data"],
                     queue |-> results["queue"],
                     email |-> IF "email" \in Started THEN results["email"]
                                                     ELSE connections.email]
  /\ startPc' = "thenDone"
  /\ UNCHANGED unmounted
  /\ lastOut' = "-"
  /\ UNCHANGED <<mounted, ready, shutdownFlag, proc, env, tasks, registered, probe, down>>

\* .catch(error => ...), lines 197-199
StartupCatch ==
  /\ Running
  /\ startPc = "pending" /\ SomeRejected
  /\ startPc' = "catchDone"
  /\ UNCHANGED unmounted
  /\ lastOut' = "-"
  /\ UNCHANGED <<flags, proc, env, tasks, registered, probe, down>>

\* mountServices(), lines 249-258
mountServices == registered' = registered + 1

\* a finally handler that also re-opens the service
StartupFinally_reopens ==
  /\ Running
  /\ startPc \in {"thenDone", "catchDone"}
  /\ ready' = Every(connections)
  /\ shutdownFlag' = FALSE
  /\ registered' = registered + 1
  /\ startPc' = "done"
  /\ tasks' = NoTasks
  /\ UNCHANGED unmounted
  /\ lastOut' = "-"
  /\ UNCHANGED <<connections, mounted, proc, env, probe, down>>

\* a finally handler whose registration also marks the service mounted
StartupFinally_mounts ==
  /\ Running
  /\ startPc \in {"thenDone", "catchDone"}
  /\ ready' = Every(connections)
  /\ mountServices
  /\ mounted' = TRUE
  /\ startPc' = "done"
  /\ tasks' = NoTasks
  /\ UNCHANGED unmounted
  /\ lastOut' = "-"
  /\ UNCHANGED <<connections, shutdownFlag, proc, env, probe, down>>

\* a finally handler that registers the handlers but leaves ready as it is
StartupFinally_keepsReady ==
  /\ Running
  /\ startPc \in {"thenDone", "catchDone"}
  /\ UNCHANGED ready
  /\ mountServices
  /\ startPc' = "done"
  /\ tasks' = NoTasks
  /\ UNCHANGED unmounted
  /\ lastOut' = "-"
  /\ UNCHANGED <<connections, mounted, shutdownFlag, proc, env, probe, down>>

\* .finally(() => ...), lines 200-204; nothing refers to the batch afterwards
StartupFinally ==
  /\ Running
  /\ startPc \in {"thenDone", "catchDone"}
  /\ ready' = Every(connections)
  /\ mountServices
  /\ startPc' = "done"
  /\ tasks' = NoTasks
  /\ UNCHANGED unmounted
  /\ lastOut' = "-"
  /\ UNCHANGED <<connections, mounted, shutdownFlag, proc, env, probe, down>>

\* ---- checkConnections(), lines 222-243 ----
\* the interval of line 214 fires: a batch of two shallow checks is started
CheckConnections ==
  /\ Running /\ ~MicrotaskPending
  /\ probeId /\ probeTimer = 0
  /\ inflight < MaxInFlight
  /\ probeTimer' = ProbeInterval
  /\ inflight' = IF ~shutdownFlag THEN inflight + 1 ELSE inflight
  /\ UNCHANGED unmounted
  /\ lastOut' = "-"
  /\ UNCHANGED <<flags, proc, start, probeId, down>>

\* a probe handler that recomputes ready before it stores the results
probeThen_staleReady(r0, r1) ==
  /\ connections' = [connections EXCEPT !.data = r0, !.queue = r1]
  /\ ready' = Every(connections)
  /\ mounted' = r1
  /\ IF ~ready'
       THEN exitCode' = 1 /\ shutdown
       ELSE UNCHANGED <<exitCode, paused, cleanupTimers>>

\* a probe handler that records the failure but does not call shutdown()
probeThen_noShutdown(r0, r1) ==
  /\ connections' = [connections EXCEPT !.data = r0, !.queue = r1]
  /\ ready' = Every(connections')
  /\ mounted' = r1
  /\ exitCode' = IF ~ready' THEN 1 ELSE exitCode
  /\ UNCHANGED <<paused, cleanupTimers>>

\* a probe handler that calls shutdown() without marking the exit code
probeThen_noExitCode(r0, r1) ==
  /\ connections' = [connections EXCEPT !.data = r0, !.queue = r1]
  /\ ready' = Every(connections')
  /\ mounted' = r1
  /\ UNCHANGED exitCode
  /\ IF ~ready' THEN shutdown ELSE UNCHANGED <<paused, cleanupTimers>>

\* a probe handler that also stores a result as the mail health
probeThen_probesMail(r0, r1) ==
  /\ connections' = [data |-> r0, queue |-> r1, email |-> r1]
  /\ ready' = Every(connections')
  /\ mounted' = r1
  /\ IF ~ready'
       THEN exitCode' = 1 /\ shutdown
       ELSE UNCHANGED <<exitCode, paused, cleanupTimers>>

\* Promise.all(tasks).then(results => ...), lines 230-241:
\* r0 and r1 are the results of the data and the queue check
probeThen(r0, r1) ==
  /\ connections' = [connections EXCEPT !.data = r0, !.queue = r1]
  /\ ready' = Every(connections')
  /\ mounted' = r1
  /\ IF ~ready'
       THEN exitCode' = 1 /\ shutdown
       ELSE UNCHANGED <<exitCode, paused, cleanupTimers>>

ProbeComplete(r0, r1) ==
  /\ Running
  /\ inflight > 0
  /\ (r0 /\ r1 /\ connections.email) \/ CanSchedule
  /\ inflight' = inflight - 1
  /\ probeThen(r0, r1)
  /\ unmounted' = (unmounted \/ (mounted /\ ~mounted'))
  /\ lastOut' = IF shutdownFlag THEN "lateProbe" ELSE "-"
  /\ UNCHANGED <<shutdownFlag, exited, exitStatus, start, probeId, probeTimer,
                 chains>>

\* a check of the batch rejects: the then handler never runs
ProbeReject ==
  /\ Running
  /\ inflight > 0
  /\ inflight' = inflight - 1
  /\ UNCHANGED unmounted
  /\ lastOut' = "-"
  /\ UNCHANGED <<flags, proc, start, probeId, probeTimer, down>>

\* ---- the request path ----
\* the gate middleware answers a request, lines 68-76
Request ==
  /\ Running /\ ~MicrotaskPending
  /\ UNCHANGED unmounted
  /\ lastOut' = evaluateGate(shutdownFlag, ready, mounted)
  /\ UNCHANGED <<flags, proc, start, probe, down>>

GateAnswers == {"Shutdown", "NotReady", "Admit"}

ErrStatuses == {400, 500, 503}

\* the status of the response the error handler sends, lines 104 and 111: a
\* Problem is sent as it is, any other error as a Problem of status 500
responseStatus(isProblem, status) == IF isProblem THEN status ELSE 500

\* an error handler that resets the data connection for client errors too
resetsConnection_anyStatus(isProblem, status) == ~shutdownFlag

\* does the error handler call dataConnection.resetConnection(), lines 103-109
resetsConnection(isProblem, status) ==
  IF isProblem THEN status >= 500 /\ ~shutdownFlag
               ELSE ~shutdownFlag

\* the error handler middleware, lines 98-114
ErrorHandler(isProblem, status) ==
  /\ Running /\ ~MicrotaskPending
  /\ UNCHANGED unmounted
  /\ lastOut' = IF resetsConnection(isProblem, status) THEN "reset" ELSE "noReset"
  /\ UNCHANGED <<flags, proc, start, probe, down>>

\* ---- time ----
\* the remaining times of the timers that are scheduled
Due ==
  {cleanupTimers[k] : k \in 1..Len(cleanupTimers)}
    \cup (IF probeId THEN {probeTimer} ELSE {})
    \cup {HardCeiling - chains[i].age : i \in {j \in 1..Len(chains) : chains[j].hard}}

Min(S) == CHOOSE x \in S : \A y \in S : x <= y

Dec(t, dt) == [k \in 1..Len(t) |-> t[k] - dt]
Older(c, dt) == [c EXCEPT !.age = IF @ + dt > HardCeiling THEN HardCeiling + 1 ELSE @ + dt]

\* time passes until the next timer is due; with no timer scheduled, for as
\* long as the longest delay of the program
Tick ==
  /\ Running /\ ~MicrotaskPending
  /\ \A t \in Due : t > 0
  /\ Due # {} \/ (\E i \in 1..Len(chains) : chains[i].age <= HardCeiling)
  /\ LET dt == IF Due = {} THEN HardCeiling ELSE Min(Due) IN
       /\ cleanupTimers' = Dec(cleanupTimers, dt)
       /\ probeTimer' = IF probeId THEN probeTimer - dt ELSE probeTimer
       /\ chains' = [i \in 1..Len(chains) |-> Older(chains[i], dt)]
  /\ UNCHANGED unmounted
  /\ lastOut' = "-"
  /\ UNCHANGED <<flags, proc, start, probeId, inflight, paused>>

Next ==
  \/ Load
  \/ \E o \in {"fulfilled", "rejected"} : TaskSettle(o)
  \/ \E results \in [Started -> BOOLEAN] : StartupThen(results)
  \/ StartupCatch
  \/ StartupFinally
  \/ CheckConnections
  \/ \E r0, r1 \in BOOLEAN : ProbeComplete(r0, r1)
  \/ ProbeReject
  \/ Signal
  \/ CleanupTimer
  \/ CleanupTimerThrows
  \/ \E i \in 1..Len(chains) : QueueClosed(i)
  \/ \E i \in 1..Len(chains) : EmailCloseThrows(i)
  \/ \E i \in 1..Len(chains) : EmailClosed(i)
  \/ \E i \in 1..Len(chains) : DataCloseThrows(i)
  \/ \E i \in 1..Len(chains) : DataClosed(i)
  \/ \E i \in 1..Len(chains) : HardTimeout(i)
  \/ Request
  \/ \E p \in BOOLEAN, st \in ErrStatuses : ErrorHandler(p, st)
  \/ Tick

Spec == Init /\ [][Next]_vars

\* the event loop lets time pass and runs every timer callback that is due
FairSpec ==
  /\ Spec
  /\ WF_vars(Tick)
  /\ WF_vars(CleanupTimer \/ CleanupTimerThrows)
  /\ WF_vars(\E i \in 1..Len(chains) : HardTimeout(i))

\* ======================= properties =======================

\* C1: however often shutdown is triggered, the close sequence is started
\* exactly once: cleanup() runs at most once.
C1_CloseSequenceOnce == Len(chains) <= 1

\* C2 (as claimed): once shutdown() has been called, a request that arrives
\* while ready and mounted are true is answered Shutdown, never Admit.
C2_ShutdownFromTrigger ==
  (paused /\ ready /\ mounted /\ lastOut \in GateAnswers) => lastOut = "Shutdown"

\* C2 (amended): once cleanup() has run, every request is answered Shutdown.
C2_ShutdownFromCleanup ==
  (Len(chains) > 0 /\ lastOut \in GateAnswers) => lastOut = "Shutdown"

C2_Witness == shutdownFlag /\ ready /\ mounted /\ lastOut = "Shutdown"

\* C3: in every close chain the queue close is started first, the mail close
\* only after the queue close has completed, the data close only after the
\* mail close has completed, and at most one close of the chain is in progress.
C3_CloseOrder ==
  \A i \in 1..Len(chains) :
    LET c == chains[i] IN
      /\ c.queue # "idle"
      /\ c.email # "idle" => c.queue = "closed"
      /\ c.data # "idle" => c.email = "closed"
      /\ Cardinality({d \in {"queue", "email", "data"} : c[d] = "closing"}) <= 1

C3_Witness == \E i \in 1..Len(chains) : chains[i].data = "closing"

\* C4: the process never runs longer than HardCeiling after a cleanup() began,
\* also when a close never completes.
C4_HardCeiling == \A i \in 1..Len(chains) : chains[i].age <= HardCeiling

\* the queue close of a chain hung and the process ended at the ceiling
C4_Witness ==
  /\ exited
  /\ \E i \in 1..Len(chains) : chains[i].age = HardCeiling /\ chains[i].queue = "closing"
  /\ \A i \in 1..Len(chains) : chains[i].data # "closed"

\* C5: except between the then and the finally handler of the startup batch
\* (where no request can run), ready is the AND of the three health booleans.
C5_ReadyIsAnd == startPc # "thenDone" => (ready = Every(connections))

\* startup and a periodic probe have both completed, all healthy
C5_Witness == startPc = "done" /\ mounted /\ ready /\ connections.email

\* C6 (as claimed): mounted goes from false to true at most once, and once
\* true it does not become false while state.shutdown is false.
C6_MountedNeverReverts ==
  [][/\ (mounted /\ ~shutdownFlag') => mounted'
     /\ (unmounted /\ ~mounted) => ~mounted']_vars

\* C6 (amended): mounted becomes false only in a probe completion that
\* reports the queue unreachable, and that step makes ready false, marks the
\* exit code failure and calls shutdown().
C6_RevertTriggersShutdown ==
  [][(mounted /\ ~mounted') =>
       /\ ~connections'.queue /\ ~ready'
       /\ exitCode' = 1
       /\ paused'
       /\ shutdownFlag \/ cleanupTimers' = Append(cleanupTimers, QuiescenceDelay)]_vars

\* mounted was true and is false again while state.shutdown is still false
C6_Witness == unmounted /\ ~mounted /\ ~shutdownFlag /\ cleanupTimers # <<>>

\* C7: a probe batch that completes after shutdown has started changes
\* neither the health flags nor the exit code and does not call shutdown().
C7_LateProbeIsNoOp ==
  [][(shutdownFlag /\ \E r0, r1 \in BOOLEAN : ProbeComplete(r0, r1)) =>
       UNCHANGED <<connections, ready, mounted, exitCode, paused, cleanupTimers>>]_vars

\* C8: a probe completion that leaves ready false marks the exit code failure
\* and calls shutdown() in the same step; the mark is never removed, and a
\* process that ends with the mark set ends with a failure status.
C8_ProbeFailureShutsDown ==
  /\ [][\A r0, r1 \in BOOLEAN :
          (~ready' /\ inflight' = inflight - 1 /\ ProbeComplete(r0, r1)) =>
            /\ exitCode' = 1
            /\ paused'
            /\ shutdownFlag \/ cleanupTimers' = Append(cleanupTimers, QuiescenceDelay)]_vars
  /\ [][exitCode = 1 => exitCode' = 1]_vars
  /\ [](exited /\ exitCode = 1 => exitStatus = 1)

\* the process ended with status 1 after a probe found the data store down
C8_Witness ==
  /\ exited /\ exitStatus = 1
  /\ startPc = "done" /\ ~connections.data /\ connections.queue /\ mounted

\* C9: the gate answers Shutdown if state.shutdown, else NotReady if not
\* ready or not mounted, else Admit; answering changes nothing else.
C9_GateTable ==
  /\ [](lastOut \in GateAnswers =>
          /\ shutdownFlag => lastOut = "Shutdown"
          /\ (~shutdownFlag /\ (~ready \/ ~mounted)) => lastOut = "NotReady"
          /\ (~shutdownFlag /\ ready /\ mounted) => lastOut = "Admit")
  /\ [][Request => UNCHANGED <<flags, proc, start, probe, down, unmounted>>]_vars

C9_Witness == lastOut = "Admit" /\ ~shutdownFlag /\ ready /\ mounted

\* C10: once state.shutdown is true it stays true, and every request from
\* then on is answered Shutdown.
C10_ShutdownMonotonic ==
  [][shutdownFlag =>
       /\ shutdownFlag'
       /\ lastOut' \in GateAnswers => lastOut' = "Shutdown"]_vars

\* after two cleanups, a late startup batch and a late probe: still Shutdown
C10_Witness ==
  /\ shutdownFlag /\ Len(chains) >= 2 /\ startPc = "done" /\ unmounted
  /\ lastOut = "Shutdown"


\* C11: the handlers that follow the startup batch (the first computation of
\* ready and the registration of the queue handlers in mountServices) run
\* only when every startup deep check has settled: no check of the batch is
\* still pending when they run, also when another check has failed.
C11_RegisterAfterAllSettled ==
  [][(StartupCatch \/ StartupFinally) => tasks.pending = 0]_vars


\* C12: when starting the startup batch throws synchronously, the startup
\* path leaves ready false, the exit code is marked failure and shutdown()
\* has been called (intake paused, cleanup scheduled or already run); the
\* process then terminates, and with a failure status.
C12_SyncThrowFailsStartup ==
  /\ [](startPc = "threw" =>
          /\ ~ready /\ registered = 0
          /\ exitCode = 1
          /\ paused
          /\ cleanupTimers # <<>> \/ shutdownFlag
          /\ exited => exitStatus = 1)
  /\ (startPc = "threw") ~> (exited /\ exitStatus = 1)

\* the startup batch threw and the process has ended with status 1
C12_Witness ==
  /\ startPc = "threw" /\ exited /\ exitStatus = 1 /\ ~ready
  /\ \E i \in 1..Len(chains) : chains[i].data = "closed"


\* C13: an error raised by a dependency close, reported to the completion
\* callback or thrown by the close call itself, does not block the next
\* close of the chain from starting and does not prevent the hard timeout of
\* the cleanup from being scheduled.
C13_CloseErrorDoesNotBlock ==
  \A i \in 1..Len(chains) :
    LET c == chains[i] IN
      /\ c.hard
      /\ c.queue = "crashed" => c.email # "idle"
      /\ c.email = "crashed" => c.data # "idle"


\* C14: a shutdown trigger pauses the queue intake before anything is closed
\* and closes nothing itself: it only arms a timer of QuiescenceDelay. The
\* shutdown flag is set, the probe schedule is cancelled and a close chain is
\* started only by a step that finds the oldest of these timers run down to
\* zero, that is QuiescenceDelay after the first trigger (timers are armed
\* in trigger order and only the passing of time lowers them).
C14_PauseThenQuiescence ==
  /\ []((shutdownFlag \/ Len(chains) > 0) => paused)
  /\ [][Len(cleanupTimers') > Len(cleanupTimers) =>
          /\ paused'
          /\ cleanupTimers' = Append(cleanupTimers, QuiescenceDelay)
          /\ UNCHANGED <<shutdownFlag, chains>>
          /\ probeId => probeId']_vars
  /\ [][(~paused /\ paused') =>
          /\ cleanupTimers' = <<QuiescenceDelay>>
          /\ UNCHANGED <<shutdownFlag, chains>>]_vars
  /\ [][(shutdownFlag' # shutdownFlag \/ Len(chains') > Len(chains)
           \/ (probeId /\ ~probeId')) =>
          /\ paused
          /\ cleanupTimers # <<>> /\ Head(cleanupTimers) = 0]_vars
  /\ [][\A k \in 1..Len(cleanupTimers) :
          (k \in 1..Len(cleanupTimers') /\ cleanupTimers'[k] < cleanupTimers[k])
            => (Tick \/ cleanupTimers' = Tail(cleanupTimers))]_vars

\* the intake is paused, the window has just elapsed and nothing is closed yet
C14_Witness ==
  /\ paused /\ ~shutdownFlag /\ probeId /\ chains = <<>>
  /\ cleanupTimers # <<>> /\ Head(cleanupTimers) = 0


\* C15: once cleanup() has cancelled the probe schedule no new probe batch
\* is started, and at most one batch that was in flight completes afterwards:
\* a completion after the cancellation is never followed by another one.
C15_OneLateProbe ==
  /\ [][shutdownFlag => inflight' <= inflight]_vars
  /\ [][~(lastOut = "lateProbe" /\ \E r0, r1 \in BOOLEAN : ProbeComplete(r0, r1))]_vars


\* C16: a probe completion stores the data and the queue result and leaves
\* the mail health as it was. The mail health changes only in the then
\* handler of the startup batch, and only in production: outside production
\* it is always true, and once the startup batch has settled it never changes.
C16_MailHealthFrozen ==
  /\ [][connections'.email # connections.email =>
          /\ ~(\E r0, r1 \in BOOLEAN : ProbeComplete(r0, r1))
          /\ env = "production" /\ startPc = "pending" /\ startPc' = "thenDone"]_vars
  /\ [][startPc \notin {"boot", "pending"} =>
          connections'.email = connections.email]_vars
  /\ [](env # "production" => connections.email)

\* production: the startup check found the mail server down, and a probe
\* that completed with data and queue up has left that result in place
C16_Witness ==
  /\ env = "production" /\ startPc = "done"
  /\ ~connections.email /\ connections.data /\ connections.queue
  /\ mounted /\ exitCode = 1


\* C17: the error handler asks for a reset of the data connection only for
\* an error it answers with a 5xx status and only while state.shutdown is
\* false; handling an error changes no flag, health value or other state;
\* and no reset is asked for once cleanup() has run, so none after a data
\* close has been started.
C17_ResetOnlyFor5xx ==
  /\ [][lastOut' = "reset" =>
          /\ ~shutdownFlag
          /\ \A p \in BOOLEAN, st \in ErrStatuses :
               ErrorHandler(p, st) => responseStatus(p, st) >= 500]_vars
  /\ [][lastOut' \in {"reset", "noReset"} =>
          UNCHANGED <<flags, proc, start, probe, down, unmounted>>]_vars
  /\ [](lastOut = "reset" => ~shutdownFlag /\ chains = <<>>)

\* a reset asked for inside the quiescence window, before cleanup() has run
C17_Witness == lastOut = "reset" /\ paused /\ ~shutdownFlag /\ mounted


\* C18: the gate cannot answer Admit before a periodic probe batch has
\* completed with the queue reachable. mounted becomes true only in such a
\* completion; module load, the handlers of the startup batch and the
\* registration in mountServices leave it alone. Until then a request is
\* answered NotReady, also when every deep check was healthy (and Shutdown
\* once cleanup() has run), never Admit.
C18_AdmitNeedsProbe ==
  /\ [][(~mounted /\ mounted') => \E r0 \in BOOLEAN : ProbeComplete(r0, TRUE)]_vars
  /\ [][mounted' # mounted =>
          ~(\/ Load
            \/ \E results \in [Started -> BOOLEAN] : StartupThen(results)
            \/ StartupCatch
            \/ StartupFinally)]_vars
  /\ [](lastOut = "Admit" => mounted)
  /\ []((~mounted /\ ~unmounted /\ lastOut \in GateAnswers) =>
          lastOut = IF shutdownFlag THEN "Shutdown" ELSE "NotReady")

\* every deep check was healthy, the handlers are registered, no probe has
\* completed yet: the request is answered NotReady
C18_Witness ==
  /\ env = "production" /\ startPc = "done" /\ registered = 1
  /\ ready /\ Every(connections) /\ ~mounted /\ ~unmounted /\ ~paused
  /\ lastOut = "NotReady"


\* C19: whenever the gate answers Admit, the recorded health of the data
\* store, the queue and the mail server are all true at that moment,
\* whatever the order of the startup handlers, the probe completions and the
\* shutdown triggers.
C19_AdmitImpliesHealthy ==
  lastOut = "Admit" =>
    /\ connections.data /\ connections.queue /\ connections.email
    /\ ready /\ mounted /\ ~shutdownFlag

\* production: admitted after the startup batch and a probe have completed,
\* while a shutdown trigger is already waiting for its quiescence window
C19_Witness ==
  /\ lastOut = "Admit" /\ env = "production" /\ startPc = "done"
  /\ registered = 1 /\ paused


\* C20: the exit code is marked failure only by the catch block of a startup
\* batch that threw synchronously or by a probe completion that leaves ready
\* false, and once marked it stays marked. A process.exit() at the end of a
\* close chain or at the hard timeout ends the process with the recorded
\* code, so a shutdown that only termination signals caused ends with
\* status 0 on both routes.
C20_FailureMarkOrigins ==
  /\ [][exitCode' # exitCode =>
          /\ exitCode = 0 /\ exitCode' = 1
          /\ \/ Load /\ startPc' = "threw"
             \/ \E r0, r1 \in BOOLEAN : ProbeComplete(r0, r1) /\ ~ready']_vars
  /\ [][(/\ exitCode = 0 /\ ~exited /\ exited'
          /\ \E i \in 1..Len(chains) : DataClosed(i) \/ HardTimeout(i))
          => exitStatus' = 0]_vars
  /\ []((exited /\ \A i \in 1..Len(chains) :
                     \A d \in {"queue", "email", "data"} : chains[i][d] # "crashed")
          => exitStatus = exitCode)

\* a healthy service stopped by a signal: the queue close hung and the hard
\* timeout ended the process with status 0
C20_Witness ==
  /\ exited /\ exitStatus = 0 /\ exitCode = 0
  /\ ready /\ mounted /\ paused
  /\ Len(chains) = 1 /\ chains[1].queue = "closing" /\ chains[1].age = HardCeiling

====
